---- MODULE Spec2Model ----
(***************************************************************************)
(* A model of the Router class of src/src/index.ts (tsndr/aws-lambda-      *)
(* router): the route table and its matching function (getRoute), the      *)
(* registration calls (use, get, post, options, any, cors, debug), and     *)
(* handle: request construction, the CORS preflight, body parsing, route   *)
(* lookup, the runner that walks the handler chain through next(), and     *)
(* the normalisation of the Response.                                      *)
(*                                                                         *)
(* Strings the code takes apart (urls, paths, header values, bodies) are   *)
(* sequences of one-character strings; strings the code only compares      *)
(* (HTTP methods, header names) are TLA+ strings.                          *)
(***************************************************************************)
EXTENDS Integers, Sequences, FiniteSets, TLC

(***************************************************************************)
(* Bounds of the model.                                                    *)
(***************************************************************************)
\* routes registered on one router
MaxRoutes == 2
\* handlers registered with use()
MaxGlobals == 2
\* activations of handlers (calls of a handler by runner) in one request
MaxActs == 3
\* next() calls one activation of a handler makes
MaxNext == 2
\* assignments to res the handlers of one request make
MaxWrites == 1
\* times the handlers of one request await asynchronous work of their own
MaxSuspends == 1

(***************************************************************************)
(* Strings as sequences of characters.                                     *)
(***************************************************************************)
Slash == "/"
Colon == ":"

\* index of the first occurrence of character c in s at or after i, 0 if none
RECURSIVE IndexFrom(_, _, _)
IndexFrom(s, c, i) ==
    IF i > Len(s) THEN 0
    ELSE IF s[i] = c THEN i
    ELSE IndexFrom(s, c, i + 1)

\* String.prototype.split(c): the pieces between the occurrences of c,
\* the empty ones included
RECURSIVE split(_, _)
split(s, c) ==
    LET i == IndexFrom(s, c, 1) IN
    IF i = 0 THEN <<s>>
    ELSE <<SubSeq(s, 1, i - 1)>> \o split(SubSeq(s, i + 1, Len(s)), c)

\* .filter(i => i) on an array of strings: the non-empty ones
filterNonEmpty(arr) == SelectSeq(arr, LAMBDA t : t # <<>>)

\* Number.prototype.toString() of a non-negative integer
Digit(d) == CASE d = 0 -> "0" [] d = 1 -> "1" [] d = 2 -> "2" [] d = 3 -> "3"
              [] d = 4 -> "4" [] d = 5 -> "5" [] d = 6 -> "6" [] d = 7 -> "7"
              [] d = 8 -> "8" [] d = 9 -> "9"
RECURSIVE toString(_)
toString(n) ==
    IF n < 10 THEN <<Digit(n)>>
    ELSE toString(n \div 10) \o <<Digit(n % 10)>>

(***************************************************************************)
(* Objects used as maps (req.params, req.query, res.headers).              *)
(***************************************************************************)
EmptyMap == [k \in {} |-> <<>>]
Put(m, k, v) == [x \in (DOMAIN m) \cup {k} |-> IF x = k THEN v ELSE m[x]]

(***************************************************************************)
(* JavaScript values held by req.body, res.body and res.raw: a tag         *)
(* followed by the characters of the value.                                *)
(***************************************************************************)
Undefined == <<"undefined">>
StrVal(chars) == <<"string">> \o chars
\* an object whose own keys and values are single characters: k1, v1, k2, v2, ...
ObjVal(kvs) == <<"object">> \o kvs
typeof(v) == v[1]
Chars(v) == Tail(v)
\* ToBoolean: undefined and the empty string are falsy, objects are truthy
Truthy(v) ==
    CASE typeof(v) = "undefined" -> FALSE
      [] typeof(v) = "string" -> Chars(v) # <<>>
      [] OTHER -> TRUE

(***************************************************************************)
(* JSON.stringify and JSON.parse, on the values above: objects with        *)
(* one-character keys and one-digit numbers as values, and one-digit       *)
(* numbers. Any other text does not parse.                                 *)
(***************************************************************************)
Quote == "\""
Digits == {"0", "1", "2", "3", "4", "5", "6", "7", "8", "9"}

RECURSIVE stringifyPairs(_)
stringifyPairs(kvs) ==
    IF kvs = <<>> THEN <<>>
    ELSE <<Quote, kvs[1], Quote, Colon, kvs[2]>>
         \o (IF Len(kvs) > 2 THEN <<",">> ELSE <<>>)
         \o stringifyPairs(SubSeq(kvs, 3, Len(kvs)))

\* JSON.stringify(v) for typeof v === 'object'
JSONstringify(v) == StrVal(<<"{">> \o stringifyPairs(Chars(v)) \o <<"}">>)

\* the members "k":d,"k":d,... of an object, from position i of t up to the
\* closing brace at the end of t; <<"error">> when t is not of that form
RECURSIVE parseMembers(_, _, _)
parseMembers(t, i, acc) ==
    IF i + 4 <= Len(t) - 1
       /\ t[i] = Quote /\ t[i + 1] \notin {Quote, "\\"} /\ t[i + 2] = Quote
       /\ t[i + 3] = Colon /\ t[i + 4] \in Digits
    THEN IF i + 5 = Len(t) /\ t[i + 5] = "}"
         THEN ObjVal(acc \o <<t[i + 1], t[i + 4]>>)
         ELSE IF i + 5 < Len(t) /\ t[i + 5] = ","
         THEN parseMembers(t, i + 6, acc \o <<t[i + 1], t[i + 4]>>)
         ELSE <<"error">>
    ELSE <<"error">>

\* JSON.parse(v): the parsed value, or <<"error">> where JSON.parse throws
\* (JSON.parse(undefined) throws too: "undefined" is no JSON text)
JSONparse(v) ==
    IF typeof(v) # "string" THEN <<"error">>
    ELSE LET t == Chars(v) IN
         IF Len(t) = 1 /\ t[1] \in Digits THEN <<"number", t[1]>>
         ELSE IF t = <<"{", "}">> THEN ObjVal(<<>>)
         ELSE IF Len(t) >= 2 /\ t[1] = "{" /\ t[Len(t)] = "}" THEN parseMembers(t, 2, <<>>)
         ELSE <<"error">>

\* String.prototype.includes
includes(s, sub) ==
    \E i \in 1..(Len(s) - Len(sub) + 1) : SubSeq(s, i, i + Len(sub) - 1) = sub

(***************************************************************************)
(* new URL(href) for the hrefs handle builds: "https://" + domainName +    *)
(* rawPath. The host runs up to the first "/", "?" or "#"; a host with a   *)
(* space is invalid and the constructor throws. Paths are taken over the   *)
(* characters that the parser leaves as they are (no dot segments, no      *)
(* characters it would percent-encode).                                    *)
(***************************************************************************)
Scheme == <<"h", "t", "t", "p", "s", ":", "/", "/">>

\* index of the first character of s at or after i that is in set cs, Len(s)+1 if none
RECURSIVE IndexOfAny(_, _, _)
IndexOfAny(s, cs, i) ==
    IF i > Len(s) THEN Len(s) + 1
    ELSE IF s[i] \in cs THEN i
    ELSE IndexOfAny(s, cs, i + 1)

\* url.searchParams.entries() of a search string without its "?"
searchParams(search) ==
    LET parts == filterNonEmpty(split(search, "&")) IN
    [i \in 1..Len(parts) |->
        LET e == IndexFrom(parts[i], "=", 1) IN
        IF e = 0 THEN <<parts[i], <<>>>>
        ELSE <<SubSeq(parts[i], 1, e - 1), SubSeq(parts[i], e + 1, Len(parts[i]))>>]

NewURL(href) ==
    LET rest == SubSeq(href, Len(Scheme) + 1, Len(href))
        hEnd == IndexOfAny(rest, {"/", "?", "#"}, 1)
        host == SubSeq(rest, 1, hEnd - 1)
        pEnd == IndexOfAny(rest, {"?", "#"}, hEnd)
        path == SubSeq(rest, hEnd, pEnd - 1)
        qEnd == IndexOfAny(rest, {"#"}, pEnd)
        search == SubSeq(rest, pEnd + 1, qEnd - 1)
    IN  [ok |-> SubSeq(href, 1, Len(Scheme)) = Scheme /\ host # <<>> /\ IndexFrom(host, " ", 1) = 0,
         pathname |-> IF path = <<>> THEN <<Slash>> ELSE path,
         entries |-> searchParams(search)]

(***************************************************************************)
(* The state: the Router object's fields, and for each invocation of       *)
(* handle (a request id) the locals of that invocation.                    *)
(***************************************************************************)
VARIABLES
    routes,          \* Router.routes
    globalHandlers,  \* Router.globalHandlers
    debugMode,       \* Router.debugMode
    corsConfig,      \* Router.corsConfig
    evt,             \* per request: the event handle was called with
    phase,           \* per request: "idle", "running" (awaiting runner(0)), "returned"
    req,             \* per request: the local req of handle
    res,             \* per request: the local res of handle
    handlers,        \* per request: the local handlers of handle (the chain)
    prevIndex,       \* per request: the local prevIndex of handle
    route,           \* per request: what getRoute returned (index into routes, 0: undefined)
    acts,            \* per request: the calls of handlers made by runner, in call order
    rootSt,          \* per request: the promise of runner(0): "none", "pending", "resolved", "rejected"
    resAtStart,      \* per request: res as it was when runner(0) was called
    atFinish,        \* per request: res, and whether a handler had thrown, when handle
                     \* resumed after runner(0)
    response,        \* per request: what handle returned
    stack            \* the synchronous call stack: <<request, activation>> pairs, top last

vars == <<routes, globalHandlers, debugMode, corsConfig, evt, phase, req, res, handlers,
          prevIndex, route, acts, rootSt, resAtStart, atFinish, response, stack>>

routerVars == <<routes, globalHandlers, debugMode, corsConfig>>

Rids == {1, 2}

NoEvent == [ctx |-> FALSE]
NoReq == [method |-> ""]
NoRes == [made |-> FALSE]
NoRoute == [threw |-> FALSE, index |-> 0, pass |-> 0]
NoResponse == [kind |-> "none"]

\* corsConfig as the class initialises it (lines 219-225)
CorsInitial ==
    [allowOrigin |-> <<"*">>, allowMethods |-> <<"*">>, allowHeaders |-> <<"*">>,
     maxAge |-> 86400, optionsSuccessStatus |-> 204]

Init ==
    /\ routes = <<>>
    /\ globalHandlers = <<>>
    /\ debugMode = FALSE
    /\ corsConfig = CorsInitial
    /\ evt = [r \in Rids |-> NoEvent]
    /\ phase = [r \in Rids |-> "idle"]
    /\ req = [r \in Rids |-> NoReq]
    /\ res = [r \in Rids |-> NoRes]
    /\ handlers = [r \in Rids |-> <<>>]
    /\ prevIndex = [r \in Rids |-> -1]
    /\ route = [r \in Rids |-> NoRoute]
    /\ acts = [r \in Rids |-> <<>>]
    /\ rootSt = [r \in Rids |-> "none"]
    /\ resAtStart = [r \in Rids |-> NoRes]
    /\ atFinish = [r \in Rids |-> [res |-> NoRes, failed |-> FALSE]]
    /\ response = [r \in Rids |-> NoResponse]
    /\ stack = <<>>

requestVars == <<evt, phase, req, res, handlers, prevIndex, route, acts, rootSt,
                 resAtStart, atFinish, response, stack>>

\* registration happens before traffic: no invocation of handle has begun
NoTraffic == \A r \in Rids : phase[r] = "idle"

(***************************************************************************)
(* Registration. A registered handler is a function value of its own: it   *)
(* is named by the call that registered it (owner 0: use(); owner i: the   *)
(* i-th register call) and its place k among that call's arguments; fn     *)
(* says whether the value is callable (typeof h === 'function').           *)
(***************************************************************************)
HandlerArgs(owner, first, fns) ==
    [i \in 1..Len(fns) |-> [owner |-> owner, k |-> first + i - 1, fn |-> fns[i]]]

\* use(...handlers) (lines 233-238); fns: the callability of each argument
use(fns) ==
    /\ NoTraffic
    /\ Len(globalHandlers) + Len(fns) <= MaxGlobals
    /\ globalHandlers' = globalHandlers \o HandlerArgs(0, Len(globalHandlers) + 1, fns)
    /\ UNCHANGED <<routes, debugMode, corsConfig, requestVars>>

\* register(method, url, handlers) (lines 387-394)
register(method, url, fns) ==
    /\ NoTraffic
    /\ Len(routes) < MaxRoutes
    /\ routes' = Append(routes, [method |-> method, url |-> url,
                                 handlers |-> HandlerArgs(Len(routes) + 1, 1, fns)])
    /\ UNCHANGED <<globalHandlers, debugMode, corsConfig, requestVars>>

\* get, post, options, any (lines 269, 313, 291, 346); connect, delete, head,
\* patch, put and trace differ from these in the method string only
get(url, fns) == register("GET", url, fns)
post(url, fns) == register("POST", url, fns)
options(url, fns) == register("OPTIONS", url, fns)
any(url, fns) == register("*", url, fns)

\* debug(state = true) (lines 356-359)
debug(state) ==
    /\ stack = <<>>
    /\ debugMode' = state
    /\ UNCHANGED <<routes, globalHandlers, corsConfig, requestVars>>

\* a || b on strings and on numbers: the empty string, 0 and undefined are falsy
OrStr(a, b) == IF a # <<>> THEN a ELSE b
OrNum(a, b) == IF a # 0 THEN a ELSE b

\* cors(config) (lines 367-376). config holds <<>> (a string) or 0 (a number)
\* where the caller's object has no such field; cors() is the config without fields
cors(config) ==
    /\ NoTraffic
    /\ corsConfig' =
         [allowOrigin |-> OrStr(config.allowOrigin, <<"*">>),
          allowMethods |-> OrStr(config.allowMethods, <<"*">>),
          allowHeaders |-> OrStr(config.allowHeaders,
                <<"*", ",", " ", "A", "u", "t", "h", "o", "r", "i", "z", "a", "t", "i", "o", "n">>),
          maxAge |-> OrNum(config.maxAge, 86400),
          optionsSuccessStatus |-> OrNum(config.optionsSuccessStatus, 204)]
    /\ UNCHANGED <<routes, globalHandlers, debugMode, requestVars>>

(***************************************************************************)
(* getRoute (lines 403-425).                                               *)
(***************************************************************************)
\* methodOk without the wildcard method (a variant the properties must reject)
methodOkExact(r, request) == r.method = request.method

\* [request.method, '*'].includes(r.method)
methodOk(r, request) == r.method \in {request.method, "*"}

\* the loop of lines 411-416 from (1-based) position i on: whether the
\* callback reaches line 417, and the params collected
RECURSIVE matchTokens(_, _, _, _)
matchTokens(routeArr, pathArr, i, params) ==
    IF i > Len(routeArr) THEN [ok |-> TRUE, params |-> params]
    ELSE IF routeArr[i] # pathArr[i] /\ routeArr[i][1] # Colon
    THEN [ok |-> FALSE, params |-> params]
    ELSE matchTokens(routeArr, pathArr, i + 1,
                     IF routeArr[i][1] = Colon
                     THEN Put(params, Tail(routeArr[i]), pathArr[i])
                     ELSE params)

\* the callback of the first find (lines 406-424) on route r: its result
\* and the request as it leaves it
RECURSIVE queryOf(_, _, _)
queryOf(entries, i, query) ==
    IF i > Len(entries) THEN query
    ELSE queryOf(entries, i + 1, Put(query, entries[i][1], entries[i][2]))

\* a callback that stores the params collected so far when a literal token
\* fails (a variant the properties must reject)
firstPassPartial(r, request, url, pathArr) ==
    LET routeArr == filterNonEmpty(split(r.url, Slash)) IN
    IF ~methodOk(r, request) \/ Len(routeArr) # Len(pathArr)
    THEN [ok |-> FALSE, request |-> request]
    ELSE LET m == matchTokens(routeArr, pathArr, 1, EmptyMap) IN
         [ok |-> m.ok,
          request |-> [request EXCEPT !.params = m.params,
                                      !.query = IF m.ok THEN queryOf(url.entries, 1, EmptyMap)
                                                ELSE @]]

firstPass(r, request, url, pathArr) ==
    LET routeArr == filterNonEmpty(split(r.url, Slash)) IN
    IF ~methodOk(r, request) \/ Len(routeArr) # Len(pathArr)
    THEN [ok |-> FALSE, request |-> request]
    ELSE LET m == matchTokens(routeArr, pathArr, 1, EmptyMap) IN
         IF ~m.ok THEN [ok |-> FALSE, request |-> request]
         ELSE [ok |-> TRUE,
               request |-> [request EXCEPT !.params = m.params,
                                           !.query = queryOf(url.entries, 1, EmptyMap)]]

\* secondPass without the method test (a variant the properties must reject)
secondPassAnyMethod(r, request) == r.url = <<"*">>

\* the callback of the second find (line 424)
secondPass(r, request) == r.url = <<"*">> /\ methodOk(r, request)

\* a find that returns the last element the first callback accepts (a variant
\* the properties must reject)
RECURSIVE findLast(_, _, _, _, _)
findLast(rs, i, request, url, pathArr) ==
    IF i > Len(rs) THEN [index |-> 0, request |-> request]
    ELSE LET rest == findLast(rs, i + 1, request, url, pathArr)
             c == firstPass(rs[i], request, url, pathArr)
         IN  IF rest.index # 0 THEN rest
             ELSE IF c.ok THEN [index |-> i, request |-> c.request]
             ELSE rest

\* Array.prototype.find with the first callback, from index i on: the index
\* found (0: none) and the request as the callbacks left it
RECURSIVE findFirst(_, _, _, _, _)
findFirst(rs, i, request, url, pathArr) ==
    IF i > Len(rs) THEN [index |-> 0, request |-> request]
    ELSE LET c == firstPass(rs[i], request, url, pathArr) IN
         IF c.ok THEN [index |-> i, request |-> c.request]
         ELSE findFirst(rs, i + 1, c.request, url, pathArr)

RECURSIVE findSecond(_, _, _)
findSecond(rs, i, request) ==
    IF i > Len(rs) THEN 0
    ELSE IF secondPass(rs[i], request) THEN i
    ELSE findSecond(rs, i + 1, request)

\* getRoute(request): threw (new URL threw), the index of the route returned
\* (0: undefined), the pass that found it, and the request as mutated
getRoute(rs, request) ==
    LET url == NewURL(request.url) IN
    IF ~url.ok THEN [threw |-> TRUE, index |-> 0, pass |-> 0, request |-> request]
    ELSE LET pathArr == filterNonEmpty(split(url.pathname, Slash))
             f == findFirst(rs, 1, request, url, pathArr)
         IN  IF f.index # 0
             THEN [threw |-> FALSE, index |-> f.index, pass |-> 1, request |-> f.request]
             ELSE LET g == findSecond(rs, 1, request) IN
                  [threw |-> FALSE, index |-> g, pass |-> IF g = 0 THEN 0 ELSE 2,
                   request |-> f.request]

(***************************************************************************)
(* handle (lines 435-512), up to the point where it suspends on            *)
(* `await runner(0)` or returns without running a handler.                 *)
(***************************************************************************)
ACAO == "Access-Control-Allow-Origin"
ACAM == "Access-Control-Allow-Methods"
ACAH == "Access-Control-Allow-Headers"
ACMA == "Access-Control-Max-Age"
ContentType == "Content-Type"
CorsHeaderNames == {ACAO, ACAM, ACAH, ACMA}

\* the four headers of lines 450-453 and 474-477
corsHeaders(cfg) ==
    [n \in CorsHeaderNames |->
        CASE n = ACAO -> cfg.allowOrigin
          [] n = ACAM -> cfg.allowMethods
          [] n = ACAH -> cfg.allowHeaders
          [] n = ACMA -> toString(cfg.maxAge)]

\* Object.keys(this.corsConfig).length (lines 447, 473)
corsKeys(cfg) == Cardinality(DOMAIN cfg)

\* errors: what `err instanceof Error` says, and err.stack
TypeErrorEvent == [isError |-> TRUE, stack |-> <<"TypeError: Cannot read properties of undefined">>]
TypeErrorUrl == [isError |-> TRUE, stack |-> <<"TypeError: Invalid URL">>]
ReentryError == [isError |-> TRUE, stack |-> <<"Error: next() called multiple times">>]
NoError == [isError |-> FALSE, stack |-> <<>>]

\* a catch block that answers with default CORS headers (a variant the
\* properties must reject)
errorResponseOpen(err, dbg) ==
    [kind |-> "error", statusCode |-> 500, hasHeaders |-> TRUE,
     headers |-> Put(EmptyMap, "Access-Control-Allow-Origin", <<"*">>),
     body |-> IF dbg /\ err.isError THEN StrVal(err.stack) ELSE Undefined]

\* the catch block (lines 504-511)
errorResponse(err, dbg) ==
    [kind |-> "error", statusCode |-> 500, hasHeaders |-> FALSE, headers |-> EmptyMap,
     body |-> IF dbg /\ err.isError THEN StrVal(err.stack) ELSE Undefined]

\* a preflight return with a fixed status (a variant the properties must reject)
preflightNoContent(cfg) ==
    [kind |-> "preflight", statusCode |-> 204, hasHeaders |-> TRUE,
     headers |-> corsHeaders(cfg), body |-> Undefined]

\* the preflight return (lines 448-456)
preflightResponse(cfg) ==
    [kind |-> "preflight", statusCode |-> cfg.optionsSuccessStatus, hasHeaders |-> TRUE,
     headers |-> corsHeaders(cfg), body |-> Undefined]

\* a 404 return whose status depends on the debug mode (a variant the
\* properties must reject)
notFoundResponseLoud(dbg) ==
    [kind |-> "notfound", statusCode |-> IF dbg THEN 400 ELSE 404, hasHeaders |-> FALSE,
     headers |-> EmptyMap,
     body |-> IF dbg
              THEN StrVal(<<"R", "o", "u", "t", "e", " ", "n", "o", "t", " ", "f", "o", "u", "n", "d", "!">>)
              ELSE Undefined]

\* the 404 return (line 471)
notFoundResponse(dbg) ==
    [kind |-> "notfound", statusCode |-> 404, hasHeaders |-> FALSE, headers |-> EmptyMap,
     body |-> IF dbg
              THEN StrVal(<<"R", "o", "u", "t", "e", " ", "n", "o", "t", " ", "f", "o", "u", "n", "d", "!">>)
              ELSE Undefined]

\* the req literal (lines 438-446); pathParameters and queryStringParameters
\* are <<>> (undefined) or <<m>>
buildReq(event) ==
    [method |-> event.method,
     headers |-> event.headers,
     url |-> Scheme \o event.domainName \o event.rawPath,
     params |-> IF event.pathParameters = <<>> THEN EmptyMap ELSE event.pathParameters[1],
     query |-> IF event.queryStringParameters = <<>> THEN EmptyMap
               ELSE event.queryStringParameters[1],
     body |-> event.body]

\* body parsing that keeps the text that does not parse (a variant the
\* properties must reject)
parseBodyKeep(r) ==
    IF r.method \in {"POST", "PUT", "PATCH"}
       /\ "content-type" \in DOMAIN r.headers
       /\ includes(r.headers["content-type"], <<"j", "s", "o", "n">>)
    THEN LET p == JSONparse(r.body) IN
         [r EXCEPT !.body = IF p = <<"error">> THEN @ ELSE p]
    ELSE r

\* body parsing (lines 458-466)
parseBody(r) ==
    IF r.method \in {"POST", "PUT", "PATCH"}
       /\ "content-type" \in DOMAIN r.headers
       /\ includes(r.headers["content-type"], <<"j", "s", "o", "n">>)
    THEN LET p == JSONparse(r.body) IN
         [r EXCEPT !.body = IF p = <<"error">> THEN ObjVal(<<>>) ELSE p]
    ELSE r

\* res created without headers (a variant the properties must reject)
newResBare(cfg) ==
    [made |-> TRUE, headers |-> EmptyMap, status |-> 0, body |-> Undefined, raw |-> <<>>]

\* res as created and pre-populated (lines 472-478)
newRes(cfg) ==
    [made |-> TRUE,
     headers |-> IF corsKeys(cfg) # 0 THEN corsHeaders(cfg) ELSE EmptyMap,
     status |-> 0,
     body |-> Undefined,
     raw |-> <<>>]

\* const handlers = [...this.globalHandlers, ...route.handlers] (line 479)
chainOf(globals, r) == globals \o r.handlers

\* the assignment to res that assigns nothing (see applyPatch)
NoPatch == [status |-> 0, body |-> <<>>, raw |-> <<>>, hname |-> "", hval |-> <<>>]

\* a call of handlers[index] by runner (line 486): the activation record
newAct(index, h, parent, awaited) ==
    [pos |-> index, h |-> h, parent |-> parent, awaited |-> awaited, st |-> "run",
     awaiting |-> 0, nexts |-> 0, wrote |-> FALSE, patch |-> NoPatch, slept |-> FALSE,
     err |-> NoError]

\* typeof handlers[index] === 'function' (line 485); index is 0-based
callable(hs, index) == index < Len(hs) /\ hs[index + 1].fn

\* the runner of the implementation printed in README.md (lines 660-668):
\* what runner(index) does when the cursor is at prev
runnerPrinted(hs, index, prev) ==
    IF index = prev THEN "reentry"
    ELSE IF ~callable(hs, index) THEN "notAFunction"
    ELSE "call"

returnNow(rid, resp) ==
    /\ phase' = [phase EXCEPT ![rid] = "returned"]
    /\ response' = [response EXCEPT ![rid] = resp]

handle(rid, event) ==
    /\ phase[rid] = "idle"
    /\ stack = <<>>
    /\ evt' = [evt EXCEPT ![rid] = event]
    /\ UNCHANGED <<routerVars, atFinish>>
    /\ IF ~event.ctx
       THEN \* event.requestContext is undefined: line 439 throws
            /\ returnNow(rid, errorResponse(TypeErrorEvent, debugMode))
            /\ UNCHANGED <<req, res, handlers, prevIndex, route, acts, rootSt, resAtStart, stack>>
       ELSE LET req0 == buildReq(event) IN
            IF req0.method = "OPTIONS" /\ corsKeys(corsConfig) # 0
            THEN /\ returnNow(rid, preflightResponse(corsConfig))
                 /\ req' = [req EXCEPT ![rid] = req0]
                 /\ UNCHANGED <<res, handlers, prevIndex, route, acts, rootSt, resAtStart, stack>>
            ELSE LET req1 == parseBody(req0)
                     g == getRoute(routes, req1)
                 IN  /\ req' = [req EXCEPT ![rid] = g.request]
                     /\ route' = [route EXCEPT ![rid] =
                                    [threw |-> g.threw, index |-> g.index, pass |-> g.pass]]
                     /\ IF g.threw
                        THEN /\ returnNow(rid, errorResponse(TypeErrorUrl, debugMode))
                             /\ UNCHANGED <<res, handlers, prevIndex, acts, rootSt, resAtStart, stack>>
                        ELSE IF g.index = 0
                        THEN /\ returnNow(rid, notFoundResponse(debugMode))
                             /\ UNCHANGED <<res, handlers, prevIndex, acts, rootSt, resAtStart, stack>>
                        ELSE LET hs == chainOf(globalHandlers, routes[g.index]) IN
                             /\ res' = [res EXCEPT ![rid] = newRes(corsConfig)]
                             /\ resAtStart' = [resAtStart EXCEPT ![rid] = newRes(corsConfig)]
                             /\ handlers' = [handlers EXCEPT ![rid] = hs]
                             \* runner(0): 0 is not prevIndex (-1)
                             /\ prevIndex' = [prevIndex EXCEPT ![rid] = 0]
                             /\ phase' = [phase EXCEPT ![rid] = "running"]
                             /\ UNCHANGED response
                             /\ IF callable(hs, 0)
                                THEN /\ acts' = [acts EXCEPT ![rid] = <<newAct(0, hs[1], 0, TRUE)>>]
                                     /\ rootSt' = [rootSt EXCEPT ![rid] = "pending"]
                                     /\ stack' = <<<<rid, 1>>>>
                                ELSE /\ rootSt' = [rootSt EXCEPT ![rid] = "resolved"]
                                     /\ UNCHANGED <<acts, stack>>

(***************************************************************************)
(* The handlers' steps. A handler is caller-supplied code: what it does    *)
(* is a choice among writing to res, calling next() (awaiting the promise  *)
(* or dropping it), awaiting other asynchronous work, throwing and         *)
(* returning. JavaScript runs one synchronous section at a time: only the  *)
(* activation on top of the call stack takes steps; when the stack is      *)
(* empty the event loop resumes any continuation that can run.             *)
(***************************************************************************)
Top == stack[Len(stack)]
Pop(stk) == SubSeq(stk, 1, Len(stk) - 1)
IsTop(rid, a) == stack # <<>> /\ Top = <<rid, a>>

\* a rejection reaches every activation suspended on `await next()` for it
RECURSIVE failUp(_, _)
failUp(A, a) ==
    LET p == A[a].parent IN
    IF p # 0 /\ A[p].st = "await" /\ A[p].awaiting = a
    THEN failUp([A EXCEPT ![p].st = "failed", ![p].err = A[a].err], p)
    ELSE A

\* control returns to the caller: a caller that wrote `await next()` reaches
\* its await and leaves the stack in turn (with the rejection, if the callee
\* has thrown); a caller that dropped the promise goes on running
RECURSIVE unwind(_, _)
unwind(A, stk) ==
    IF stk = <<>> THEN [acts |-> A, stack |-> stk]
    ELSE LET p == stk[Len(stk)][2]
             b == A[p].awaiting
         IN  IF b = 0 THEN [acts |-> A, stack |-> stk]
             ELSE IF A[b].st = "failed"
             THEN unwind(failUp([A EXCEPT ![p].st = "failed", ![p].err = A[b].err], p), Pop(stk))
             ELSE unwind([A EXCEPT ![p].st = "await"], Pop(stk))

\* the promise of runner(0) follows the first activation
rootOf(A) ==
    IF A = <<>> THEN "resolved"
    ELSE CASE A[1].st = "done" -> "resolved"
           [] A[1].st = "failed" -> "rejected"
           [] OTHER -> "pending"

\* the activation on top leaves the stack with acts A
leave(rid, A) ==
    LET u == unwind(A, Pop(stack)) IN
    /\ acts' = [acts EXCEPT ![rid] = u.acts]
    /\ stack' = u.stack
    /\ rootSt' = [rootSt EXCEPT ![rid] = rootOf(u.acts)]

\* a handler assigns to fields of res: status (0: not assigned), body and raw
\* (<<>>: not assigned, <<v>>: assigned v; a raw value is an object with
\* statusCode, headers (if hasHeaders) and body), one header (name "": none)
applyPatch(r, patch) ==
    [r EXCEPT !.status = IF patch.status # 0 THEN patch.status ELSE @,
              !.body = IF patch.body # <<>> THEN patch.body[1] ELSE @,
              !.raw = IF patch.raw # <<>> THEN patch.raw ELSE @,
              !.headers = IF patch.hname # "" THEN Put(@, patch.hname, patch.hval) ELSE @]

written(A) == Cardinality({x \in DOMAIN A : A[x].wrote})
suspended(A) == Cardinality({x \in DOMAIN A : A[x].slept})

write(rid, a, patch) ==
    /\ IsTop(rid, a)
    /\ written(acts[rid]) < MaxWrites
    /\ res' = [res EXCEPT ![rid] = applyPatch(@, patch)]
    /\ acts' = [acts EXCEPT ![rid][a].wrote = TRUE, ![rid][a].patch = patch]
    /\ UNCHANGED <<routerVars, evt, phase, req, handlers, prevIndex, route, rootSt,
                   resAtStart, atFinish, response, stack>>

\* a continuation that skips a position (a variant the properties must reject)
nextIndexSkip(index) == index + 2

\* next: async () => await runner(index + 1) (line 486)
nextIndex(index) == index + 1

\* a runner that rejects every advance (a variant the properties must reject)
reentryAhead(index, prev) == index >= prev

\* a cursor that the invocations of handle share (a variant the properties
\* must reject)
reentryShared(index, prev) == \E r \in Rids : index = prevIndex[r]

\* index === prevIndex (line 482)
reentry(index, prev) == index = prev

\* next() called by activation a: runner(index + 1) (lines 481-487).
\* awaited: the handler awaits (or returns) the promise; otherwise it drops it
next(rid, a, awaited) ==
    LET me == acts[rid][a]
        index == nextIndex(me.pos)
        counted == [acts[rid] EXCEPT ![a].nexts = @ + 1]
    IN
    /\ IsTop(rid, a)
    /\ me.nexts < MaxNext
    /\ UNCHANGED <<routerVars, evt, phase, req, res, handlers, route, resAtStart, atFinish,
                   response>>
    /\ IF reentry(index, prevIndex[rid])
       THEN \* line 483: the promise of next() is rejected
            /\ UNCHANGED prevIndex
            /\ IF awaited
               THEN leave(rid, failUp([counted EXCEPT ![a].st = "failed",
                                                       ![a].err = ReentryError], a))
               ELSE /\ acts' = [acts EXCEPT ![rid] = counted]
                    /\ UNCHANGED <<stack, rootSt>>
       ELSE /\ prevIndex' = [prevIndex EXCEPT ![rid] = index]
            /\ IF callable(handlers[rid], index)
               THEN \* line 486: the next handler is called, synchronously
                    /\ Len(acts[rid]) < MaxActs
                    /\ acts' = [acts EXCEPT ![rid] =
                                 Append([counted EXCEPT ![a].awaiting =
                                            IF awaited THEN Len(acts[rid]) + 1 ELSE 0],
                                        newAct(index, handlers[rid][index + 1], a, awaited))]
                    /\ stack' = Append(stack, <<rid, Len(acts[rid]) + 1>>)
                    /\ UNCHANGED rootSt
               ELSE \* nothing to call: the promise of next() is resolved
                    IF awaited
                    THEN leave(rid, [counted EXCEPT ![a].st = "await"])
                    ELSE /\ acts' = [acts EXCEPT ![rid] = counted]
                         /\ UNCHANGED <<stack, rootSt>>

\* the handler awaits asynchronous work of its own
suspend(rid, a) ==
    /\ IsTop(rid, a)
    /\ suspended(acts[rid]) < MaxSuspends
    /\ leave(rid, [acts[rid] EXCEPT ![a].st = "susp", ![a].slept = TRUE])
    /\ UNCHANGED <<routerVars, evt, phase, req, res, handlers, prevIndex, route,
                   resAtStart, atFinish, response>>

\* the handler returns (its promise, if any, is fulfilled)
return(rid, a) ==
    /\ IsTop(rid, a)
    /\ leave(rid, [acts[rid] EXCEPT ![a].st = "done"])
    /\ UNCHANGED <<routerVars, evt, phase, req, res, handlers, prevIndex, route,
                   resAtStart, atFinish, response>>

\* the handler throws err
throw(rid, a, err) ==
    /\ IsTop(rid, a)
    /\ leave(rid, failUp([acts[rid] EXCEPT ![a].st = "failed", ![a].err = err], a))
    /\ UNCHANGED <<routerVars, evt, phase, req, res, handlers, prevIndex, route,
                   resAtStart, atFinish, response>>

\* an event loop that runs the continuations of timers and requests only (a
\* variant the properties must reject)
resumableWork(A, a) == A[a].st = "susp"

\* the event loop resumes a continuation: asynchronous work has completed,
\* or the awaited promise of next() is fulfilled
resumable(A, a) ==
    IF A[a].st = "susp" THEN TRUE
    ELSE IF A[a].st # "await" THEN FALSE
    ELSE IF A[a].awaiting = 0 THEN TRUE
    ELSE A[A[a].awaiting].st = "done"

resume(rid, a) ==
    /\ stack = <<>>
    /\ a \in DOMAIN acts[rid]
    /\ resumable(acts[rid], a)
    /\ acts' = [acts EXCEPT ![rid][a].st = "run", ![rid][a].awaiting = 0]
    /\ stack' = <<<<rid, a>>>>
    /\ UNCHANGED <<routerVars, evt, phase, req, res, handlers, prevIndex, route, rootSt,
                   resAtStart, atFinish, response>>

(***************************************************************************)
(* handle after `await runner(0)` (lines 489-511).                         *)
(***************************************************************************)
\* no status suppresses the body (a variant the properties must reject)
BodylessNone == {}

BodylessStatus == {101, 204, 205, 304}

\* a serialisation that always sets the JSON content type (a variant the
\* properties must reject)
serialisedTyped(r) ==
    IF typeof(r.body) = "object"
    THEN [r EXCEPT !.headers = Put(@, ContentType,
                                   <<"a", "p", "p", "l", "i", "c", "a", "t", "i", "o", "n", "/",
                                     "j", "s", "o", "n", ";", " ", "c", "h", "a", "r", "s", "e",
                                     "t", "=", "u", "t", "f", "-", "8">>),
                   !.body = JSONstringify(@)]
    ELSE r

\* lines 489-493: res after the serialisation of an object body
serialised(r) ==
    IF typeof(r.body) = "object"
    THEN [r EXCEPT !.headers = IF ContentType \in DOMAIN @ /\ @[ContentType] # <<>>
                               THEN @
                               ELSE Put(@, ContentType,
                                        <<"a", "p", "p", "l", "i", "c", "a", "t", "i", "o", "n", "/",
                                          "j", "s", "o", "n", ";", " ", "c", "h", "a", "r", "s", "e",
                                          "t", "=", "u", "t", "f", "-", "8">>),
                   !.body = JSONstringify(@)]
    ELSE r

\* a status default of 204 whatever the body (a variant the properties must reject)
statusOfNoContent(r) == IF r.status # 0 THEN r.status ELSE 204

\* a status default that ignores the body (a variant the properties must reject)
statusOfOk(r) == IF r.status # 0 THEN r.status ELSE 200

\* line 496
statusOf(r) == IF r.status # 0 THEN r.status ELSE IF Truthy(r.body) THEN 200 ELSE 204

\* a normalisation that applies the status default to the raw reply (a variant
\* the properties must reject)
normalizeRawStatus(r0) ==
    LET r1 == serialised(r0)
        r2 == [r1 EXCEPT !.status = statusOf(r1)]
    IN  IF r1.raw # <<>>
        THEN [res |-> r2,
              response |-> [kind |-> "raw", statusCode |-> r2.status,
                            hasHeaders |-> r1.raw[1].hasHeaders, headers |-> r1.raw[1].headers,
                            body |-> r1.raw[1].body]]
        ELSE [res |-> r2,
              response |-> [kind |-> "normal", statusCode |-> r2.status, hasHeaders |-> TRUE,
                            headers |-> r2.headers,
                            body |-> IF r2.status \in BodylessStatus THEN Undefined ELSE r2.body]]

\* lines 489-503: res as handle leaves it, and what handle returns
normalize(r0) ==
    LET r1 == serialised(r0) IN
    IF r1.raw # <<>>
    THEN [res |-> r1,
          response |-> [kind |-> "raw", statusCode |-> r1.raw[1].statusCode,
                        hasHeaders |-> r1.raw[1].hasHeaders, headers |-> r1.raw[1].headers,
                        body |-> r1.raw[1].body]]
    ELSE LET r2 == [r1 EXCEPT !.status = statusOf(r1)] IN
         [res |-> r2,
          response |-> [kind |-> "normal", statusCode |-> r2.status, hasHeaders |-> TRUE,
                        headers |-> r2.headers,
                        body |-> IF r2.status \in BodylessStatus THEN Undefined ELSE r2.body]]

\* the continuation of handle once the promise of runner(0) is settled
finish(rid) ==
    /\ stack = <<>>
    /\ phase[rid] = "running"
    /\ rootSt[rid] \in {"resolved", "rejected"}
    /\ IF rootSt[rid] = "rejected"
       THEN /\ returnNow(rid, errorResponse(acts[rid][1].err, debugMode))
            /\ UNCHANGED res
       ELSE LET n == normalize(res[rid]) IN
            /\ returnNow(rid, n.response)
            /\ res' = [res EXCEPT ![rid] = n.res]
    /\ atFinish' = [atFinish EXCEPT ![rid] = [res |-> res[rid],
                                           failed |-> \E a \in DOMAIN acts[rid] :
                                                         acts[rid][a].st = "failed"]]
    /\ UNCHANGED <<routerVars, evt, req, handlers, prevIndex, route, acts, rootSt,
                   resAtStart, stack>>

(***************************************************************************)
(* The inputs of the chain specification: one path pattern, handler        *)
(* lists of up to two entries, and events that reach every return of       *)
(* handle.                                                                 *)
(***************************************************************************)
PathA == <<Slash, "a">>
PathB == <<Slash, "b">>
Domain == <<"d">>

Event(method, domainName, rawPath) ==
    [ctx |-> TRUE, method |-> method, domainName |-> domainName, rawPath |-> rawPath,
     rawQueryString |-> <<>>, pathParameters |-> <<>>, queryStringParameters |-> <<>>,
     headers |-> EmptyMap, body |-> Undefined]

\* an event without requestContext
BadEvent == [Event("GET", Domain, PathA) EXCEPT !.ctx = FALSE]

ChainEvents ==
    {Event("GET", Domain, PathA), Event("GET", Domain, PathB), Event("OPTIONS", Domain, PathA),
     Event("GET", <<" ">>, PathA), BadEvent}

ChainFns == {<<>>, <<TRUE>>, <<TRUE, TRUE>>, <<FALSE, TRUE>>}

\* a value a handler assigns to res.raw: a reply of its own, without headers
RawReply == [statusCode |-> 202, hasHeaders |-> FALSE, headers |-> EmptyMap,
             body |-> StrVal(<<"r">>)]
ChainPatches ==
    {[NoPatch EXCEPT !.status = 201],
     [NoPatch EXCEPT !.body = <<StrVal(<<"x">>)>>],
     [NoPatch EXCEPT !.body = <<ObjVal(<<"k", "1">>)>>],
     [NoPatch EXCEPT !.hname = ACAO, !.hval = <<"o">>],
     [NoPatch EXCEPT !.raw = <<RawReply>>]}

\* what handlers throw: an Error, or a value that is no Error
HandlerError == [isError |-> TRUE, stack |-> <<"Error: handler">>]
HandlerThrown == [isError |-> FALSE, stack |-> <<>>]
Thrown == {HandlerError, HandlerThrown}

NoConfig == [allowOrigin |-> <<>>, allowMethods |-> <<>>, allowHeaders |-> <<>>,
             maxAge |-> 0, optionsSuccessStatus |-> 0]
CustomConfig == [allowOrigin |-> <<"o", "k">>, allowMethods |-> <<"G", "E", "T">>,
                 allowHeaders |-> <<>>, maxAge |-> 600, optionsSuccessStatus |-> 200]
CorsConfigs == {NoConfig, CustomConfig}

\* the steps of the handlers of request rid
handlerStep(rid, patches) ==
    \E a \in 1..MaxActs :
        \/ \E patch \in patches : write(rid, a, patch)
        \/ \E awaited \in BOOLEAN : next(rid, a, awaited)
        \/ suspend(rid, a)
        \/ return(rid, a)
        \/ \E err \in Thrown : throw(rid, a, err)
        \/ resume(rid, a)

\* the chain specification registers one route
Next ==
    \/ use(<<TRUE>>)
    \/ routes = <<>> /\ \E fns \in ChainFns : get(PathA, fns)
    \/ NoTraffic /\ debug(TRUE)
    \/ \E event \in ChainEvents : handle(1, event)
    \/ handlerStep(1, ChainPatches)
    \/ finish(1)

Spec == Init /\ [][Next]_vars

(***************************************************************************)
(* The inputs of the routing specification: route tables over literal,     *)
(* parameter and wildcard patterns under get, options and any, every CORS  *)
(* configuration, and requests over paths of zero to two segments;         *)
(* handlers that write a header or a raw reply, await next(), return and   *)
(* throw.                                                                  *)
(***************************************************************************)
UrlA == <<Slash, "a">>
UrlX == <<Slash, Colon, "x">>
UrlXX == <<Slash, Colon, "x", Slash, Colon, "x">>
UrlStar == <<"*">>
UrlRoot == <<Slash>>
UrlAB == <<"a", Slash, Slash, "b", Slash>>
RouteUrls == {UrlA, UrlX, UrlXX, UrlStar, UrlRoot, UrlAB}

RoutePaths ==
    {<<Slash, "a">>, <<Slash, "b">>, <<Slash, "a", Slash, "b">>, <<Slash, "b", Slash, "a">>,
     <<Slash, "*">>, <<Slash>>}
RouteEvents == {Event(m, Domain, path) : m \in {"GET", "OPTIONS"}, path \in RoutePaths}

RoutePatches ==
    {[NoPatch EXCEPT !.hname = ACAO, !.hval = <<"o">>],
     [NoPatch EXCEPT !.raw = <<RawReply>>]}

routeHandlerStep(rid) ==
    \E a \in 1..MaxActs :
        \/ \E patch \in RoutePatches : write(rid, a, patch)
        \/ next(rid, a, TRUE)
        \/ return(rid, a)
        \/ throw(rid, a, HandlerError)
        \/ resume(rid, a)

NextRoute ==
    \/ globalHandlers = <<>> /\ use(<<TRUE>>)
    \/ \E url \in RouteUrls : get(url, <<TRUE>>)
    \/ \E url \in {UrlA, UrlStar} : options(url, <<TRUE>>)
    \/ \E url \in {UrlX, UrlStar} : any(url, <<TRUE>>)
    \/ NoTraffic /\ debug(TRUE)
    \/ \E config \in CorsConfigs : cors(config)
    \/ \E event \in RouteEvents : handle(1, event)
    \/ routeHandlerStep(1)
    \/ finish(1)

SpecRoute == Init /\ [][NextRoute]_vars

(***************************************************************************)
(* The inputs of the request and response specification: one route under   *)
(* any(), events that vary in method, content type, body and the           *)
(* parameters the gateway supplies, and handlers that assign status, body, *)
(* a content type and raw together, await next(), return and throw.        *)
(***************************************************************************)
JsonType == <<"a", "p", "p", "l", "i", "c", "a", "t", "i", "o", "n", "/", "j", "s", "o", "n">>
TextType == <<"t", "e", "x", "t">>
HeaderSets == {EmptyMap, Put(EmptyMap, "content-type", JsonType), Put(EmptyMap, "content-type", TextType)}

\* '{"a":1}', and a text that is no JSON
JsonBody == StrVal(<<"{", Quote, "a", Quote, Colon, "1", "}">>)
BrokenBody == StrVal(<<"{", "a">>)
Bodies == {Undefined, JsonBody, BrokenBody}

\* what the gateway supplies besides the path: nothing, or path parameters
\* and the query string "q=1" with its parsed form
GatewayParams == Put(Put(EmptyMap, <<"p">>, <<"1">>), <<"x">>, <<"z">>)
GatewayQuery == Put(EmptyMap, <<"q">>, <<"1">>)
QueryString == <<"q", "=", "1">>

NormEvents ==
    {[Event(m, Domain, PathA) EXCEPT !.headers = hs, !.body = b,
                                      !.pathParameters = IF g THEN <<GatewayParams>> ELSE <<>>,
                                      !.queryStringParameters = IF g THEN <<GatewayQuery>> ELSE <<>>,
                                      !.rawQueryString = IF g THEN QueryString ELSE <<>>] :
        m \in {"GET", "POST", "DELETE"}, hs \in HeaderSets, b \in Bodies, g \in BOOLEAN}

\* a raw reply with headers of its own
RawWithHeaders == [statusCode |-> 304, hasHeaders |-> TRUE,
                   headers |-> Put(EmptyMap, "X", <<"1">>), body |-> StrVal(<<"r">>)]

NormPatches ==
    {[NoPatch EXCEPT !.status = 201, !.body = <<StrVal(<<"x">>)>>],
     [NoPatch EXCEPT !.status = 304, !.body = <<StrVal(<<"x">>)>>],
     [NoPatch EXCEPT !.status = 204, !.body = <<ObjVal(<<"k", "1">>)>>],
     [NoPatch EXCEPT !.body = <<StrVal(<<"x">>)>>],
     [NoPatch EXCEPT !.body = <<StrVal(<<>>)>>],
     [NoPatch EXCEPT !.body = <<StrVal(<<"x">>)>>, !.hname = ContentType, !.hval = TextType],
     [NoPatch EXCEPT !.body = <<ObjVal(<<"k", "1">>)>>],
     [NoPatch EXCEPT !.body = <<ObjVal(<<>>)>>],
     [NoPatch EXCEPT !.body = <<ObjVal(<<"k", "1">>)>>, !.hname = ContentType, !.hval = TextType],
     [NoPatch EXCEPT !.raw = <<RawReply>>],
     [NoPatch EXCEPT !.raw = <<RawWithHeaders>>, !.status = 204,
                     !.body = <<ObjVal(<<"k", "1">>)>>]}

normHandlerStep(rid) ==
    \E a \in 1..MaxActs :
        \/ \E patch \in NormPatches : write(rid, a, patch)
        \/ next(rid, a, TRUE)
        \/ return(rid, a)
        \/ throw(rid, a, HandlerError)
        \/ resume(rid, a)

NextNorm ==
    \/ globalHandlers = <<>> /\ use(<<TRUE>>)
    \/ routes = <<>> /\ \E url \in {UrlA, UrlX, UrlStar} : any(url, <<TRUE>>)
    \/ \E event \in NormEvents : handle(1, event)
    \/ normHandlerStep(1)
    \/ finish(1)

SpecNorm == Init /\ [][NextNorm]_vars

(***************************************************************************)
(* The chain specification with its scheduling: a handler terminates (it   *)
(* does not assign, await or call next() for ever, so a handler that       *)
(* executes again and again eventually returns or throws), the event loop  *)
(* eventually runs a continuation that is ready, and handle goes on once   *)
(* the promise it awaits is settled. One route, at most one global         *)
(* handler.                                                                *)
(***************************************************************************)
LivePatches ==
    {[NoPatch EXCEPT !.status = 201],
     [NoPatch EXCEPT !.raw = <<RawReply>>]}

NextLive ==
    \/ globalHandlers = <<>> /\ use(<<TRUE>>)
    \/ routes = <<>> /\ \E fns \in ChainFns : get(PathA, fns)
    \/ NoTraffic /\ debug(TRUE)
    \/ \E event \in ChainEvents : handle(1, event)
    \/ handlerStep(1, LivePatches)
    \/ finish(1)

\* a handler terminates: the activation that is executing returns or throws
terminate(rid) ==
    \E a \in 1..MaxActs : return(rid, a) \/ \E err \in Thrown : throw(rid, a, err)

\* the event loop runs a continuation that is ready
eventLoop(rid) == \E a \in 1..MaxActs : resume(rid, a)

SpecLive ==
    /\ Init
    /\ [][NextLive]_vars
    /\ SF_vars(terminate(1))
    /\ WF_vars(eventLoop(1))
    /\ WF_vars(finish(1))

(***************************************************************************)
(* The inputs of the concurrency specification: two invocations of handle  *)
(* in flight on one router. The second starts whenever the call stack is   *)
(* empty, and the event loop runs the continuations of both in any order.  *)
(* A handler assigns a status that tells the requests apart, awaits every  *)
(* next() and may await work of its own.                                   *)
(***************************************************************************)
PairFns == {<<TRUE>>, <<TRUE, TRUE>>}
PairStatus(rid) == 200 + rid

pairHandlerStep(rid) ==
    \E a \in 1..MaxActs :
        \/ write(rid, a, [NoPatch EXCEPT !.status = PairStatus(rid)])
        \/ next(rid, a, TRUE)
        \/ suspend(rid, a)
        \/ return(rid, a)
        \/ throw(rid, a, HandlerError)
        \/ resume(rid, a)

NextPair ==
    \/ routes = <<>> /\ \E fns \in PairFns : get(PathA, fns)
    \/ \E rid \in Rids : handle(rid, Event("GET", Domain, PathA))
    \/ \E rid \in Rids : pairHandlerStep(rid)
    \/ \E rid \in Rids : finish(rid)

SpecPair == Init /\ [][NextPair]_vars

(***************************************************************************)
(* The inputs of the debug specification: the same event is handled twice  *)
(* by one router, first with debug mode on (request 1), then with debug    *)
(* mode off (request 2). The handlers are the same functions in both       *)
(* requests: an activation of request 2 takes the steps that the           *)
(* activation of the same number took in request 1. A handler here         *)
(* assigns to res at most once, before its first next(), and awaits every  *)
(* next().                                                                 *)
(***************************************************************************)
\* the activation of request 1 that activation a of request 2 repeats
twin(a) == acts[1][a]

\* the activation threw by itself: no rejection of next() reached it
threwItself(c) == c.st = "failed" /\ c.awaiting = 0 /\ c.err # ReentryError

\* the steps of the handlers of request 1: any behaviour
firstRun(a) ==
    \/ \E patch \in ChainPatches :
          ~acts[1][a].wrote /\ acts[1][a].nexts = 0 /\ write(1, a, patch)
    \/ next(1, a, TRUE)
    \/ return(1, a)
    \/ \E err \in Thrown : throw(1, a, err)

\* the steps of the handlers of request 2: those of request 1 again
secondRun(a) ==
    \/ /\ a \in DOMAIN acts[1]
       /\ twin(a).wrote /\ ~acts[2][a].wrote /\ acts[2][a].nexts = 0
       /\ write(2, a, twin(a).patch)
    \/ /\ a \in DOMAIN acts[1]
       /\ twin(a).wrote => acts[2][a].wrote
       /\ acts[2][a].nexts < twin(a).nexts
       /\ next(2, a, TRUE)
    \/ /\ a \in DOMAIN acts[1]
       /\ twin(a).st = "done"
       /\ acts[2][a].wrote = twin(a).wrote /\ acts[2][a].nexts = twin(a).nexts
       /\ return(2, a)
    \/ /\ a \in DOMAIN acts[1]
       /\ threwItself(twin(a))
       /\ acts[2][a].wrote = twin(a).wrote /\ acts[2][a].nexts = twin(a).nexts
       /\ throw(2, a, twin(a).err)

NextDebug ==
    \/ globalHandlers = <<>> /\ NoTraffic /\ use(<<TRUE>>)
    \/ routes = <<>> /\ \E fns \in ChainFns : get(PathA, fns)
    \/ NoTraffic /\ ~debugMode /\ debug(TRUE)
    \/ debugMode /\ \E event \in ChainEvents : handle(1, event)
    \/ \E a \in 1..MaxActs : IsTop(1, a) /\ firstRun(a)
    \/ \E a \in 1..MaxActs : resume(1, a)
    \/ finish(1)
    \/ phase[1] = "returned" /\ debugMode /\ debug(FALSE)
    \/ phase[1] = "returned" /\ ~debugMode /\ handle(2, evt[1])
    \/ \E a \in 1..MaxActs : IsTop(2, a) /\ secondRun(a)
    \/ \E a \in 1..MaxActs : resume(2, a)
    \/ finish(2)

SpecDebug == Init /\ [][NextDebug]_vars

(***************************************************************************)
(* The inputs of the binding specification: patterns whose parameter       *)
(* token is followed by a literal one, registered under two methods, and   *)
(* GET events with and without the parameters the gateway supplies.        *)
(***************************************************************************)
UrlXB == <<Slash, Colon, "x", Slash, "b">>
UrlYC == <<Slash, Colon, "y", Slash, "c">>
BindUrls == {UrlXB, UrlYC, UrlX, UrlA, UrlStar}

BindPaths ==
    {<<Slash, "a">>, <<Slash, "a", Slash, "b">>, <<Slash, "a", Slash, "c">>,
     <<Slash, "a", Slash, "d">>}
BindEvents ==
    {[Event("GET", Domain, path) EXCEPT
          !.pathParameters = IF g THEN <<GatewayParams>> ELSE <<>>,
          !.queryStringParameters = IF g THEN <<GatewayQuery>> ELSE <<>>,
          !.rawQueryString = IF g THEN QueryString ELSE <<>>] :
        path \in BindPaths, g \in BOOLEAN}

NextBind ==
    \/ \E url \in BindUrls : get(url, <<TRUE>>)
    \/ \E url \in BindUrls : post(url, <<TRUE>>)
    \/ \E event \in BindEvents : handle(1, event)
    \/ \E a \in 1..MaxActs : return(1, a)
    \/ finish(1)

SpecBind == Init /\ [][NextBind]_vars

(***************************************************************************)
(* The properties checked. The matching rule and the expected responses    *)
(* are stated here in the words of the specification, apart from the       *)
(* operators that model the code.                                          *)
(***************************************************************************)
\* the non-empty "/"-separated segments of s: its maximal runs of characters
\* other than "/", from left to right
SegStarts(s) == {i \in 1..Len(s) : s[i] # Slash /\ (i = 1 \/ s[i - 1] = Slash)}
SegEnd(s, i) ==
    CHOOSE j \in i..Len(s) :
        (\A k \in i..j : s[k] # Slash) /\ (j = Len(s) \/ s[j + 1] = Slash)
Segments(s) ==
    LET st == SegStarts(s) IN
    [n \in 1..Cardinality(st) |->
        LET i == CHOOSE x \in st : Cardinality({y \in st : y < x}) = n - 1
        IN  SubSeq(s, i, SegEnd(s, i))]

IsParam(token) == token[1] = Colon
MethodCompatible(r, method) == r.method = method \/ r.method = "*"

\* the method-and-segment rule
RuleMatch(r, method, path) ==
    LET P == Segments(r.url)
        Q == Segments(path)
    IN  /\ MethodCompatible(r, method)
        /\ Len(P) = Len(Q)
        /\ \A i \in 1..Len(P) : P[i] = Q[i] \/ IsParam(P[i])

Min(S) == CHOOSE x \in S : \A y \in S : x <= y
Max(S) == CHOOSE x \in S : \A y \in S : x >= y

\* handle was called with a well-formed non-OPTIONS event: getRoute has run
Looked(rid) ==
    /\ phase[rid] # "idle"
    /\ evt[rid].ctx
    /\ evt[rid].method # "OPTIONS"
    /\ evt[rid].domainName = Domain

Matching(rid) ==
    {i \in DOMAIN routes : RuleMatch(routes[i], evt[rid].method, evt[rid].rawPath)}

\* the value of a decimal numeral
RECURSIVE DecimalValue(_)
DecimalValue(cs) ==
    IF cs = <<>> THEN 0
    ELSE 10 * DecimalValue(SubSeq(cs, 1, Len(cs) - 1))
         + (CHOOSE d \in 0..9 : Digit(d) = cs[Len(cs)])

\* header n of hs holds the value configured for it
Configured(hs, n) ==
    /\ n \in DOMAIN hs
    /\ CASE n = ACAO -> hs[n] = corsConfig.allowOrigin
         [] n = ACAM -> hs[n] = corsConfig.allowMethods
         [] n = ACAH -> hs[n] = corsConfig.allowHeaders
         [] n = ACMA -> hs[n] # <<>> /\ DecimalValue(hs[n]) = corsConfig.maxAge

\* the chain is the global handlers followed by the handlers of route i
ChainIs(rid, i) ==
    LET G == Len(globalHandlers)
        R == routes[i].handlers
    IN  /\ Len(handlers[rid]) = G + Len(R)
        /\ \A k \in 1..G : handlers[rid][k] = globalHandlers[k]
        /\ \A k \in 1..Len(R) : handlers[rid][G + k] = R[k]

\* the selection part of C1, and the chain that then runs
C1Selection(rid) ==
    /\ route[rid].pass = 1 <=> Matching(rid) # {}
    /\ route[rid].pass = 1 =>
          /\ route[rid].index \in Matching(rid)
          /\ ChainIs(rid, route[rid].index)
          /\ acts[rid] # <<>>
          /\ acts[rid][1].h = handlers[rid][1]
          /\ \A a \in DOMAIN acts[rid] :
                acts[rid][a].h = handlers[rid][acts[rid][a].pos + 1]

\* C1 (as amended): getRoute selects a route in its first pass exactly when
\* some registered route matches the request by the method-and-segment rule;
\* handle then runs the chain ending in that route's handlers, and req.params
\* maps the name of every ":name" token to the path token at the position of
\* the last token of the pattern that carries this name.
C1_SegmentMatch ==
    \A rid \in Rids : Looked(rid) =>
        /\ C1Selection(rid)
        /\ route[rid].pass = 1 =>
              LET P == Segments(routes[route[rid].index].url)
                  Q == Segments(evt[rid].rawPath)
              IN  \A p \in 1..Len(P) : IsParam(P[p]) =>
                      /\ Tail(P[p]) \in DOMAIN req[rid].params
                      /\ req[rid].params[Tail(P[p])] =
                            Q[Max({q \in 1..Len(P) : P[q] = P[p]})]

\* C1 as stated: every ":name" token is bound to the path token at its own position
C1_ParamsByPosition ==
    \A rid \in Rids : Looked(rid) =>
        /\ C1Selection(rid)
        /\ route[rid].pass = 1 =>
              LET P == Segments(routes[route[rid].index].url)
                  Q == Segments(evt[rid].rawPath)
              IN  \A p \in 1..Len(P) : IsParam(P[p]) =>
                      /\ Tail(P[p]) \in DOMAIN req[rid].params
                      /\ req[rid].params[Tail(P[p])] = Q[p]

\* a request for /b/a selected the route /:x/:x, whose handler has started
C1_Witness ==
    /\ Looked(1)
    /\ route[1].pass = 1
    /\ routes[route[1].index].url = UrlXX
    /\ evt[1].rawPath = <<Slash, "b", Slash, "a">>
    /\ req[1].params[<<"x">>] = <<"a">>
    /\ \E a \in DOMAIN acts[1] : acts[1][a].h.owner = route[1].index

\* C2: when several registered routes match a request by the rule, the chain
\* that handle runs is that of the earliest-registered one, and no handler of
\* a later route is ever started.
C2_EarliestWins ==
    \A rid \in Rids : (Looked(rid) /\ Matching(rid) # {}) =>
        /\ route[rid].index = Min(Matching(rid))
        /\ ChainIs(rid, Min(Matching(rid)))
        /\ \A a \in DOMAIN acts[rid] : acts[rid][a].h.owner \in {0, Min(Matching(rid))}

\* /:x registered before /a, a request for /a: the handler of /:x has started
C2_Witness ==
    /\ Looked(1)
    /\ Len(routes) = 2
    /\ routes[1].url = UrlX
    /\ routes[2].url = UrlA
    /\ Matching(1) = {1, 2}
    /\ \E a \in DOMAIN acts[1] : acts[1][a].h.owner = 1

\* the routes whose whole pattern is "*" and whose method suits the request
Stars(rid) ==
    {i \in DOMAIN routes : routes[i].url = UrlStar /\ MethodCompatible(routes[i], evt[rid].method)}
\* the other routes that match the request by the rule
Specific(rid) == {i \in Matching(rid) : routes[i].url # UrlStar}

\* C3: a "*" route is selected exactly when no other registered route matches
\* the request by the rule, whatever the registration order; the earliest
\* method-compatible "*" route is the one used; without a match and without a
\* "*" route the result is no-match.
C3_WildcardFallback ==
    \A rid \in Rids : Looked(rid) =>
        /\ Specific(rid) # {} => route[rid].index \in Specific(rid)
        /\ (Specific(rid) = {} /\ Stars(rid) # {}) => route[rid].index = Min(Stars(rid))
        /\ (Specific(rid) = {} /\ Stars(rid) = {}) => route[rid].index = 0

\* C8: a non-OPTIONS request that no registered route matches and for which
\* no method-compatible "*" route exists gets statusCode 404, with no body
\* when debug mode is off and 'Route not found!' when it is on, and no
\* handler, global or of a route, is started.
C8_NotFound ==
    \A rid \in Rids : (Looked(rid) /\ Matching(rid) = {} /\ Stars(rid) = {}) =>
        /\ phase[rid] = "returned"
        /\ response[rid].statusCode = 404
        /\ response[rid].body =
              IF debugMode
              THEN StrVal(<<"R", "o", "u", "t", "e", " ", "n", "o", "t", " ", "f", "o", "u", "n", "d", "!">>)
              ELSE Undefined
        /\ acts[rid] = <<>>

\* a 404 in debug mode on a router with a global handler and a route
C8_Witness ==
    /\ Looked(1)
    /\ Matching(1) = {}
    /\ Stars(1) = {}
    /\ debugMode
    /\ globalHandlers # <<>>
    /\ routes # <<>>
    /\ response[1].statusCode = 404

\* C9: every OPTIONS request is answered with exactly the four
\* Access-Control-* headers at their configured values and the configured
\* optionsSuccessStatus; no route is looked up and no handler is started.
C9_Preflight ==
    \A rid \in Rids : (phase[rid] # "idle" /\ evt[rid].ctx /\ evt[rid].method = "OPTIONS") =>
        /\ phase[rid] = "returned"
        /\ response[rid].statusCode = corsConfig.optionsSuccessStatus
        /\ response[rid].hasHeaders
        /\ DOMAIN response[rid].headers = CorsHeaderNames
        /\ \A n \in CorsHeaderNames : Configured(response[rid].headers, n)
        /\ response[rid].body = Undefined
        /\ route[rid] = NoRoute
        /\ acts[rid] = <<>>

\* a preflight under cors(config) although options() and any() routes match the path
C9_Witness ==
    /\ phase[1] = "returned"
    /\ evt[1].method = "OPTIONS"
    /\ evt[1].rawPath = <<Slash, "a">>
    /\ corsConfig.maxAge = 600
    /\ Len(routes) = 2
    /\ routes[1] = [method |-> "OPTIONS", url |-> UrlA, handlers |-> HandlerArgs(1, 1, <<TRUE>>)]
    /\ routes[2].method = "*"
    /\ routes[2].url = UrlStar
    /\ response[1].statusCode = 200

\* the handlers' assignments to header n, in the order of the activations
Overwrites(rid, n) == {a \in DOMAIN acts[rid] : acts[rid][a].patch.hname = n}

At(rid, k) == {a \in DOMAIN acts[rid] : acts[rid][a].pos = k}

\* C4: for every routed request the chain is the global handlers in use()
\* order followed by the matched route's handlers in argument order; the
\* handler at position 0 is the first one started, every other start of a
\* handler is the consequence of a next() call of a handler at the position
\* just before it, and every started handler is the chain's entry at its
\* position.
C4_ChainOrder ==
    \A rid \in Rids : (phase[rid] # "idle" /\ route[rid].index # 0) =>
        /\ ChainIs(rid, route[rid].index)
        /\ \A k \in 1..Len(globalHandlers) :
              handlers[rid][k].owner = 0 /\ handlers[rid][k].k = k
        /\ \A k \in 1..Len(routes[route[rid].index].handlers) :
              /\ handlers[rid][Len(globalHandlers) + k].owner = route[rid].index
              /\ handlers[rid][Len(globalHandlers) + k].k = k
        /\ acts[rid] # <<>> => acts[rid][1].pos = 0 /\ acts[rid][1].parent = 0
        /\ \A a \in DOMAIN acts[rid] :
              /\ acts[rid][a].pos < Len(handlers[rid])
              /\ acts[rid][a].h = handlers[rid][acts[rid][a].pos + 1]
              /\ a > 1 =>
                    /\ acts[rid][a].parent \in 1..(a - 1)
                    /\ acts[rid][acts[rid][a].parent].nexts >= 1
                    /\ acts[rid][a].pos = acts[rid][acts[rid][a].parent].pos + 1

\* two global handlers and a route handler, each started by the one before it
C4_Witness ==
    /\ Len(globalHandlers) = 2
    /\ Len(handlers[1]) = 3
    /\ Len(acts[1]) = 3
    /\ \A a \in 1..3 : acts[1][a].pos = a - 1
    /\ acts[1][3].h.owner = route[1].index
    /\ phase[1] = "returned"

\* the handler at position k has run and has never called next
Halted(rid, k) == At(rid, k) # {} /\ \A a \in At(rid, k) : acts[rid][a].nexts = 0
\* ... and has returned
Returned(rid, k) == Halted(rid, k) /\ \A a \in At(rid, k) : acts[rid][a].st = "done"

\* resp is what the outbound rules make of the Response r: the raw override
\* verbatim if there is one; otherwise the status set by a handler, or 200
\* with a non-empty body and 204 without; an object body as JSON text, under
\* a JSON content type unless a content type is set; no body under a
\* bodyless status; the headers of r
NormalisationOf(r, resp) ==
    IF r.raw # <<>>
    THEN /\ resp.statusCode = r.raw[1].statusCode
         /\ resp.hasHeaders = r.raw[1].hasHeaders
         /\ resp.headers = r.raw[1].headers
         /\ resp.body = r.raw[1].body
    ELSE LET status == IF r.status # 0 THEN r.status
                       ELSE IF r.body \in {Undefined, StrVal(<<>>)} THEN 204 ELSE 200
             isObject == typeof(r.body) = "object"
         IN  /\ resp.statusCode = status
             /\ IF status \in {101, 204, 205, 304} THEN resp.body = Undefined
                ELSE IF isObject
                THEN typeof(resp.body) = "string" /\ JSONparse(resp.body) = r.body
                ELSE resp.body = r.body
             /\ resp.hasHeaders
             /\ DOMAIN resp.headers =
                   DOMAIN r.headers \cup (IF isObject THEN {ContentType} ELSE {})
             /\ \A n \in DOMAIN r.headers : resp.headers[n] = r.headers[n]
             /\ (isObject /\ ContentType \notin DOMAIN r.headers) =>
                   resp.headers[ContentType] =
                       <<"a", "p", "p", "l", "i", "c", "a", "t", "i", "o", "n", "/",
                         "j", "s", "o", "n", ";", " ", "c", "h", "a", "r", "s", "e",
                         "t", "=", "u", "t", "f", "-", "8">>

C6_SecondNext ==
    \A rid \in Rids : \A a \in DOMAIN acts[rid] : acts[rid][a].nexts >= 2 =>
        /\ \A k \in (acts[rid][a].pos + 1)..MaxActs : Cardinality(At(rid, k)) <= 1
        /\ phase[rid] = "returned" => response[rid].statusCode = 500

\* C7: whenever an error is thrown during normalisation, route matching or
\* the execution of a handler of the chain, the response of handle has
\* statusCode 500, without body when debug mode is off and with the error's
\* detail as body only when debug mode is on.
C7_ErrorBoundary ==
    \A rid \in Rids :
        (phase[rid] = "returned" /\ (~evt[rid].ctx \/ route[rid].threw \/ atFinish[rid].failed)) =>
            /\ response[rid].statusCode = 500
            /\ ~debugMode => response[rid].body = Undefined

\* the chain of request rid completed without error and handle has returned;
\* atFinish[rid].res is the Response as the handlers left it
Completed(rid) ==
    /\ phase[rid] = "returned"
    /\ route[rid].index # 0
    /\ rootSt[rid] = "resolved"

\* a body is present: it is neither undefined nor the empty string
Present(body) == body \notin {Undefined, StrVal(<<>>)}

JsonContentType ==
    <<"a", "p", "p", "l", "i", "c", "a", "t", "i", "o", "n", "/", "j", "s", "o", "n", ";", " ",
      "c", "h", "a", "r", "s", "e", "t", "=", "u", "t", "f", "-", "8">>

C13_BodylessStatus ==
    \A rid \in Rids : (Completed(rid) /\ atFinish[rid].res.raw = <<>>) =>
        LET r == atFinish[rid].res
            resp == response[rid]
        IN  IF resp.statusCode \in {101, 204, 205, 304}
            THEN resp.body = Undefined
            ELSE IF typeof(r.body) = "object"
                 THEN typeof(resp.body) = "string" /\ JSONparse(resp.body) = r.body
                 ELSE resp.body = r.body

\* status 304 with a body that is not empty
C13_Witness ==
    /\ Completed(1)
    /\ atFinish[1].res.status = 304
    /\ atFinish[1].res.body = StrVal(<<"x">>)
    /\ response[1].statusCode = 304
    /\ response[1].body = Undefined

\* C14: a raw override set on the Response when the chain completes without
\* error is what handle returns, unchanged, whatever status, body and headers
\* the Response holds.
C14_RawOverride ==
    \A rid \in Rids : (Completed(rid) /\ atFinish[rid].res.raw # <<>>) =>
        LET raw == atFinish[rid].res.raw[1] IN
        /\ response[rid].statusCode = raw.statusCode
        /\ response[rid].hasHeaders = raw.hasHeaders
        /\ response[rid].headers = raw.headers
        /\ response[rid].body = raw.body

\* a raw reply with status 304 and a body, on a Response with status 204, an
\* object body and the CORS headers
C14_Witness ==
    /\ Completed(1)
    /\ atFinish[1].res.raw = <<RawWithHeaders>>
    /\ atFinish[1].res.status = 204
    /\ typeof(atFinish[1].res.body) = "object"
    /\ ACAO \in DOMAIN atFinish[1].res.headers
    /\ response[1].statusCode = 304
    /\ response[1].body = StrVal(<<"r">>)
    /\ DOMAIN response[1].headers = {"X"}

\* request rid carries a content type that contains 'json'
JsonRequest(rid) ==
    /\ phase[rid] # "idle"
    /\ evt[rid].ctx
    /\ "content-type" \in DOMAIN evt[rid].headers
    /\ \E i \in 1..(Len(evt[rid].headers["content-type"]) - 3) :
          SubSeq(evt[rid].headers["content-type"], i, i + 3) = <<"j", "s", "o", "n">>

\* the request is routed as the rule says, its chain is started, and no error
\* reaches the error boundary unless a handler fails
RoutedAsUsual(rid) ==
    /\ route[rid].index # 0 <=> (Matching(rid) # {} \/ Stars(rid) # {})
    /\ route[rid].index # 0 => acts[rid] # <<>> /\ acts[rid][1].h = handlers[rid][1]
    /\ (phase[rid] = "returned" /\ response[rid].kind = "error") => atFinish[rid].failed

C16_ParsedMethods ==
    \A rid \in Rids : (JsonRequest(rid) /\ route[rid].index # 0) =>
        IF evt[rid].method \in {"POST", "PUT", "PATCH", "DELETE"}
        THEN evt[rid].body = JsonBody => req[rid].body = ObjVal(<<"a", "1">>)
        ELSE req[rid].body = evt[rid].body

\* the pairs of a query string of the form k=v
UrlPairs(qs) == IF qs = <<>> THEN EmptyMap ELSE Put(EmptyMap, <<qs[1]>>, <<qs[3]>>)
Supplied(opt) == IF opt = <<>> THEN EmptyMap ELSE opt[1]

\* m is the merge of the supplied map with the derived one, the derived
\* value winning
MergeOf(m, supplied, derived) ==
    /\ DOMAIN m = DOMAIN supplied \cup DOMAIN derived
    /\ \A k \in DOMAIN m : m[k] = IF k \in DOMAIN derived THEN derived[k] ELSE supplied[k]

\* C17: for every request routed by a segment match, req.params and
\* req.query are the merge of what the gateway supplies
\* (event.pathParameters, event.queryStringParameters) with the parameters
\* bound by the route and the pairs of the URL's query string, the derived
\* value winning; a supplied key that is not derived is still present.
C17_MergedParams ==
    \A rid \in Rids : (Looked(rid) /\ route[rid].pass = 1) =>
        LET P == Segments(routes[route[rid].index].url)
            Q == Segments(evt[rid].rawPath)
            names == {Tail(P[p]) : p \in {q \in 1..Len(P) : IsParam(P[q])}}
            bound == [n \in names |-> Q[Max({q \in 1..Len(P) : IsParam(P[q]) /\ Tail(P[q]) = n})]]
        IN  /\ MergeOf(req[rid].params, Supplied(evt[rid].pathParameters), bound)
            /\ MergeOf(req[rid].query, Supplied(evt[rid].queryStringParameters),
                       UrlPairs(evt[rid].rawQueryString))

\* cors() has never been called: corsConfig is still the initial object
\* (every call of cors() sets allowHeaders to a value other than "*")
NeverConfigured == corsConfig = CorsInitial

\* C19: on a router on which cors() has never been called an OPTIONS request
\* is routed like any other method (the handlers of a matching options() or
\* any() route run, a request that nothing matches gets 404), and no
\* response carries an Access-Control-* header that no handler has set.
C19_CorsOptional ==
    \A rid \in Rids : (NeverConfigured /\ phase[rid] = "returned" /\ evt[rid].ctx) =>
        /\ evt[rid].method = "OPTIONS" =>
              /\ (Matching(rid) # {} \/ Stars(rid) # {}) => acts[rid] # <<>>
              /\ (Matching(rid) = {} /\ Stars(rid) = {}) => response[rid].statusCode = 404
        /\ response[rid].hasHeaders =>
              \A n \in CorsHeaderNames :
                  n \in DOMAIN response[rid].headers => Overwrites(rid, n) # {}

\* runner(index) was called: index 0 by handle, index k + 1 by a next() of
\* a handler at position k
AdvancedTo(rid, index) ==
    \/ index = 0
    \/ \E a \in DOMAIN acts[rid] : acts[rid][a].pos = index - 1 /\ acts[rid][a].nexts >= 1

\* C20: a request in which the runner advances to a chain entry that is not
\* callable is aborted: handle returns statusCode 500, never the normal
\* response.
C20_NonCallable ==
    \A rid \in Rids : (phase[rid] = "returned" /\ route[rid].index # 0) =>
        \A index \in 0..(Len(handlers[rid]) - 1) :
            (AdvancedTo(rid, index) /\ ~handlers[rid][index + 1].fn) =>
                /\ response[rid].statusCode = 500
                /\ response[rid].kind = "error"

\* the handlers started by request rid, in the order of their starts
Started(rid) == [a \in DOMAIN acts[rid] |-> acts[rid][a].h]

\* request 2 has come as far as request 1 did: it has returned, or it has a
\* step to take
Follows ==
    phase[2] = "running" =>
        \/ stack # <<>> /\ ENABLED (\E a \in 1..MaxActs : IsTop(2, a) /\ secondRun(a))
        \/ stack = <<>> /\ ENABLED ((\E a \in 1..MaxActs : resume(2, a)) \/ finish(2))

\* C18: the same event handled by the same router with the same handler
\* behaviour, once with debug mode on (request 1) and once with debug mode
\* off (request 2), yields the same statusCode, the same headers and the
\* same sequence of started handlers, and the same kind of return; the
\* bodies differ at most in a 404 or a 500 response. Request 2 never starts
\* a handler that request 1 did not start at that point, and it never stops
\* short of what request 1 did.
C18_DebugInvisible ==
    /\ phase[2] # "idle" =>
          /\ evt[2] = evt[1]
          /\ route[2] = route[1]
          /\ handlers[2] = handlers[1]
          /\ Len(acts[2]) <= Len(acts[1])
          /\ \A a \in DOMAIN acts[2] : Started(2)[a] = Started(1)[a]
    /\ Follows
    /\ phase[2] = "returned" =>
          /\ Started(2) = Started(1)
          /\ response[2].kind = response[1].kind
          /\ response[2].statusCode = response[1].statusCode
          /\ response[2].hasHeaders = response[1].hasHeaders
          /\ response[2].headers = response[1].headers
          /\ response[2].kind \notin {"notfound", "error"} =>
                response[2].body = response[1].body

\* a failing chain of two handlers handled twice: the two 500 responses
\* differ in their bodies only
C18_Witness ==
    /\ phase[1] = "returned"
    /\ phase[2] = "returned"
    /\ ~debugMode
    /\ Len(acts[2]) = 2
    /\ acts[2][2].st = "failed"
    /\ response[1].statusCode = 500
    /\ response[1].body # Undefined
    /\ response[2].body = Undefined

\* handle has returned from line 471: a route was looked up and none found
NotFoundCase(rid) ==
    /\ phase[rid] = "returned"
    /\ evt[rid].ctx
    /\ evt[rid].method # "OPTIONS"
    /\ ~route[rid].threw
    /\ route[rid].index = 0

\* handle has returned from its catch block: the event has no
\* requestContext, the URL is invalid, or the promise of the chain is rejected
ErrorCase(rid) ==
    /\ phase[rid] = "returned"
    /\ ~evt[rid].ctx \/ route[rid].threw \/ rootSt[rid] = "rejected"

\* what the handlers of request rid assigned to res
Wrote(rid) == {a \in DOMAIN acts[rid] : acts[rid][a].wrote}

\* C28: the 404 response and the 500 response of handle consist of statusCode
\* and body: they have no headers (none of the Access-Control-* headers
\* either), and the 500 response carries no status, header or body that a
\* handler has assigned to res: its body is absent or, in debug mode, the
\* stack of the error.
C28_BareFailures ==
    \A rid \in Rids :
        /\ NotFoundCase(rid) =>
              /\ response[rid].statusCode = 404
              /\ ~response[rid].hasHeaders
              /\ response[rid].headers = EmptyMap
              /\ acts[rid] = <<>>
        /\ ErrorCase(rid) =>
              /\ response[rid].statusCode = 500
              /\ ~response[rid].hasHeaders
              /\ response[rid].headers = EmptyMap
              /\ \/ response[rid].body = Undefined
                 \/ /\ debugMode
                    /\ response[rid].body \in
                          {StrVal(e.stack) : e \in {HandlerError, ReentryError,
                                                    TypeErrorEvent, TypeErrorUrl}}
              /\ \A a \in Wrote(rid) :
                    /\ acts[rid][a].patch.status # response[rid].statusCode
                    /\ acts[rid][a].patch.body # <<response[rid].body>>

\* a 500 in debug mode after a handler has assigned a header to res and a
\* later handler has thrown
C28_Witness ==
    /\ ErrorCase(1)
    /\ debugMode
    /\ Len(acts[1]) = 2
    /\ acts[1][1].wrote
    /\ acts[1][1].patch.hname = ACAO
    /\ ACAO \in DOMAIN res[1].headers
    /\ res[1].headers[ACAO] = <<"o">>
    /\ acts[1][2].err = HandlerError
    /\ response[1].statusCode = 500
    /\ response[1].body = StrVal(HandlerError.stack)

\* the cursor of request rid was advanced past the end of its chain
PastEnd(rid) ==
    /\ phase[rid] # "idle"
    /\ route[rid].index # 0
    /\ AdvancedTo(rid, Len(handlers[rid]))

\* the last handler of the chain was started once and called next() once:
\* its activation
CalledPastEnd(rid) ==
    {a \in DOMAIN acts[rid] :
        /\ At(rid, Len(handlers[rid]) - 1) = {a}
        /\ acts[rid][a].nexts = 1}

C24_QueryPairs ==
    \A rid \in Rids : (Looked(rid) /\ route[rid].index # 0) =>
        LET pairs == UrlPairs(evt[rid].rawQueryString) IN
        \A k \in DOMAIN pairs :
            k \in DOMAIN req[rid].query /\ req[rid].query[k] = pairs[k]

\* route i is rejected by the first pass after a parameter token of its
\* pattern has matched: a literal token further on differs
HalfMatched(rid, i) ==
    LET P == Segments(routes[i].url)
        Q == Segments(evt[rid].rawPath)
    IN  /\ MethodCompatible(routes[i], evt[rid].method)
        /\ Len(P) = Len(Q)
        /\ \E p \in 1..Len(P) :
              /\ IsParam(P[p])
              /\ \E q \in (p + 1)..Len(P) : ~IsParam(P[q]) /\ P[q] # Q[q]

\* the parameters that route i binds on the path of request rid
BoundBy(rid, i) ==
    LET P == Segments(routes[i].url)
        Q == Segments(evt[rid].rawPath)
        names == {Tail(P[p]) : p \in {q \in 1..Len(P) : IsParam(P[q])}}
    IN  [n \in names |-> Q[Max({q \in 1..Len(P) : IsParam(P[q]) /\ Tail(P[q]) = n})]]

\* C25: after route selection req.params holds no binding of a rejected
\* route: when a route is selected by a segment match req.params is what
\* this route binds, and when none is (the "*" fallback, or 404) req.params
\* and req.query are what handle built from the event, as is the rest of
\* the Request.
C25_NoPartialBinding ==
    \A rid \in Rids : Looked(rid) =>
        /\ route[rid].pass = 1 => req[rid].params = BoundBy(rid, route[rid].index)
        /\ route[rid].pass # 1 =>
              /\ req[rid].params = Supplied(evt[rid].pathParameters)
              /\ req[rid].query = Supplied(evt[rid].queryStringParameters)
              /\ req[rid].method = evt[rid].method
              /\ req[rid].headers = evt[rid].headers
              /\ req[rid].body = evt[rid].body

\* '/:x/b' is rejected on the path '/a/c' after ":x" has matched "a"; the
\* fallback route is selected and req.params is what the gateway supplied
C25_Witness ==
    /\ Looked(1)
    /\ Len(routes) = 2
    /\ routes[1].url = UrlXB
    /\ routes[1].method = "GET"
    /\ routes[2].url = UrlStar
    /\ evt[1].rawPath = <<Slash, "a", Slash, "c">>
    /\ HalfMatched(1, 1)
    /\ route[1].pass = 2
    /\ route[1].index = 2
    /\ req[1].params = GatewayParams
    /\ phase[1] = "returned"

\* the behaviour of the README's example: the handlers whose promise the
\* caller of next() has dropped await asynchronous work of their own (a
\* timer, a request) and do not call next()
DetachedWork(rid) ==
    \A a \in DOMAIN acts[rid] :
        ~acts[rid][a].awaited => acts[rid][a].slept /\ acts[rid][a].nexts = 0

\* C21: the Response is finalised only after the chain has completed, also
\* when a handler calls next() without awaiting it and a later handler
\* awaits asynchronous work: when handle returns the normalised response
\* every started handler has finished, so that no handler assigns to the
\* Response afterwards, and the status a handler has assigned is the
\* statusCode returned.
C21_FinalizedAfterChain ==
    \A rid \in Rids :
        (phase[rid] = "returned" /\ response[rid].kind = "normal" /\ DetachedWork(rid)) =>
            /\ \A a \in DOMAIN acts[rid] : acts[rid][a].st \in {"done", "failed"}
            /\ \A a \in Wrote(rid) :
                  (Wrote(rid) = {a} /\ acts[rid][a].patch.status # 0) =>
                      response[rid].statusCode = acts[rid][a].patch.status

\* the activation has finished: its handler has returned or thrown
Finished(rid, b) == acts[rid][b].st \in {"done", "failed"}

\* C22: the steps that the handler at position k takes after its next()
\* call never interleave with steps of the handlers at positions greater
\* than k: whenever a handler that has called next() is executing, every
\* started handler at a later position has finished.
C22_Sequential ==
    \A rid \in Rids : \A a \in DOMAIN acts[rid] :
        (IsTop(rid, a) /\ acts[rid][a].nexts >= 1) =>
            \A b \in DOMAIN acts[rid] :
                acts[rid][b].pos > acts[rid][a].pos => Finished(rid, b)

\* the returns of handle
Outcomes == {"preflight", "notfound", "error", "raw", "normal"}

\* C26: every invocation of handle whose handlers terminate returns, once,
\* and what it returns is one of: the preflight response (before body
\* parsing and routing), the 404 response (after routing, before any
\* handler is started), the 500 response of the error boundary, the raw
\* override and the normalised response. Before the return there is no
\* response, and after it the response never changes.
C26_OneOutcome ==
    /\ [](\A rid \in Rids :
            /\ phase[rid] # "returned" => response[rid] = NoResponse
            /\ phase[rid] = "returned" =>
                  /\ response[rid].kind \in Outcomes
                  /\ response[rid].kind = "preflight" =>
                        /\ evt[rid].method = "OPTIONS"
                        /\ req[rid].body = evt[rid].body
                        /\ route[rid] = NoRoute
                        /\ acts[rid] = <<>>
                  /\ response[rid].kind = "notfound" =>
                        route[rid].index = 0 /\ ~route[rid].threw /\ acts[rid] = <<>>
                  /\ response[rid].kind = "error" =>
                        ~evt[rid].ctx \/ route[rid].threw \/ rootSt[rid] = "rejected"
                  /\ response[rid].kind \in {"raw", "normal"} =>
                        /\ rootSt[rid] = "resolved"
                        /\ response[rid].kind = "raw" <=> atFinish[rid].res.raw # <<>>)
    /\ [][\A rid \in Rids :
            phase[rid] = "returned" =>
                phase'[rid] = "returned" /\ response'[rid] = response[rid]]_vars
    /\ \A rid \in {1} : (phase[rid] # "idle") ~> (phase[rid] = "returned")

\* a request whose first handler dropped the promise of next() and whose
\* second handler awaited work of its own has returned the raw override
C26_Witness ==
    /\ phase[1] = "returned"
    /\ response[1].kind = "raw"
    /\ Len(acts[1]) = 2
    /\ ~acts[1][2].awaited
    /\ acts[1][2].slept

\* the locals of the invocation rid of handle
Locals(rid) ==
    <<evt[rid], phase[rid], req[rid], res[rid], handlers[rid], prevIndex[rid], route[rid],
      acts[rid], rootSt[rid], response[rid]>>

\* the last handler of the chain was started once and called next() twice
TwicePastEnd(rid) ==
    {a \in DOMAIN acts[rid] :
        /\ At(rid, Len(handlers[rid]) - 1) = {a}
        /\ acts[rid][a].nexts = 2}

\* C23: two invocations of handle in flight on one router do not interfere.
\* No step changes the locals of both; each runs its own chain; the
\* Response of each holds its own handlers' assignments only and its
\* response is the normalisation of that Response, or the 500 of its own
\* failure; the re-entry error of a request has its cause in that request (a
\* handler of it has called next() twice), and the second next() of the last
\* handler of a request gets the error whatever the other request does.
C23_NoInterference ==
    /\ [][\A r1, r2 \in Rids :
            (Locals(r1)' # Locals(r1) /\ Locals(r2)' # Locals(r2)) => r1 = r2]_vars
    /\ [](\A rid \in Rids : (phase[rid] # "idle" /\ route[rid].index # 0) =>
            /\ ChainIs(rid, route[rid].index)
            /\ \A a \in DOMAIN acts[rid] :
                  /\ acts[rid][a].h = handlers[rid][acts[rid][a].pos + 1]
                  /\ acts[rid][a].wrote => acts[rid][a].patch.status = PairStatus(rid)
            /\ res[rid].status \in {0, PairStatus(rid)} \cup
                                   (IF phase[rid] = "returned" THEN {204} ELSE {})
            /\ res[rid].status = PairStatus(rid) => Wrote(rid) # {}
            /\ (\E a \in DOMAIN acts[rid] : acts[rid][a].err = ReentryError) =>
                  \E b \in DOMAIN acts[rid] : acts[rid][b].nexts >= 2
            /\ \A a \in TwicePastEnd(rid) :
                  acts[rid][a].st = "failed" /\ acts[rid][a].err = ReentryError
            /\ phase[rid] = "returned" =>
                  IF rootSt[rid] = "rejected"
                  THEN response[rid].statusCode = 500
                  ELSE /\ NormalisationOf(atFinish[rid].res, response[rid])
                       /\ response[rid].statusCode =
                             IF Wrote(rid) # {} /\ atFinish[rid].res.status # 0
                             THEN PairStatus(rid) ELSE 204)

\* both requests are in flight, each with two handlers started, the first
\* of them suspended in its awaited next(), and each Response holds the
\* status of its own request
C23_Witness ==
    /\ phase[1] = "running"
    /\ phase[2] = "running"
    /\ Len(acts[1]) = 2
    /\ Len(acts[2]) = 2
    /\ acts[1][1].st = "await"
    /\ acts[2][1].st = "await"
    /\ res[1].status = 201
    /\ res[2].status = 202

====
